---- MODULE Spec2Model ----
(***************************************************************************)
(* State-machine model of the two command bridges of the repository:       *)
(*   - src/src-tauri/scripts/broadlink_bridge.py   (device bridge: one     *)
(*     command per process run; discover / learn / send / test)            *)
(*   - src/src-tauri/sidecars/impress_controller.py (presentation bridge:  *)
(*     a persistent loop answering one JSON line at a time)                *)
(* A behaviour is one process run of one of the two bridges.  The remote   *)
(* device, the UNO automation session, the file system and the process     *)
(* spawner are the environment: every call into them draws its outcome     *)
(* (return value or raised exception) nondeterministically.                *)
(***************************************************************************)
EXTENDS Integers, Sequences, FiniteSets, TLC

VARIABLES
    bridge,      \* "device" | "impress": which script this process runs
    argv,        \* sys.argv of the device bridge (argv[1] is the script name)
    codeText,    \* text of the <code> argument of send, as a sequence of characters
    pc,          \* position of the process
    stdout,      \* lines (JSON values) printed so far
    exitCode,    \* exit status once pc = "exited"; -1 while the process runs
    trace,       \* device bridge: calls on the device library, sleeps and prints, in order
    i,           \* device bridge: iterations of the current polling loop completed
    sawTransient, \* learn: some poll of the current phase raised StorageError / ReadError
    sawEmpty,    \* learn: some poll of the current phase returned a falsy value
    found,       \* learn: the local variable found of the frequency-seek loop
    data,        \* learn: payload returned by the last check_data; send: payload given to send_data
    exc,         \* exception the last step's call raised and a handler caught (NoExc if none)
    nlines,      \* presentation bridge: lines read from stdin so far (blank ones included)
    nonblank,    \* presentation bridge: non-blank lines processed so far
    line,        \* presentation bridge: the last line read
    resolvable,  \* presentation bridge: whether the UNO socket could be resolved while that line was handled
    ops,         \* presentation bridge: calls made while handling the last line, with results
    spawned      \* presentation bridge: argv of the subprocess.Popen call of the last line, or << >>

vars == <<bridge, argv, codeText, pc, stdout, exitCode, trace, i, sawTransient,
          sawEmpty, found, data, exc, nlines, nonblank, line, resolvable, ops, spawned>>

deviceVars == <<argv, codeText, trace, i, sawTransient, sawEmpty, found, data>>
impressVars == <<nlines, nonblank, line, resolvable, ops, spawned>>

(***************************************************************************)
(* Bounds of the model.                                                    *)
(***************************************************************************)
MaxPayloadLen == 2      \* bytes in a payload returned by check_data
MaxDevices == 2         \* devices answering a discover
MaxLines == 2           \* lines the presentation bridge reads before end of input

(***************************************************************************)
(* Exceptions.  str(e) is the msg field.                                   *)
(***************************************************************************)
NoExc == [kind |-> "none", msg |-> ""]

StorageError == [kind |-> "StorageError", msg |-> "The storage is full"]
ReadError == [kind |-> "ReadError", msg |-> "Read error"]
SocketTimeout == [kind |-> "socket.timeout", msg |-> "timed out"]
NetworkError == [kind |-> "OSError", msg |-> "Network is unreachable"]

\* What a call on the device library may raise.
DeviceExceptions == {StorageError, ReadError, SocketTimeout, NetworkError}

SystemExit(code) == [kind |-> "SystemExit", msg |-> "", code |-> code]

\* "except Exception": SystemExit and KeyboardInterrupt derive from
\* BaseException only and pass through.
IsException(e) == e.kind \notin {"none", "SystemExit", "KeyboardInterrupt"}

\* except (broadlink.exceptions.StorageError, broadlink.exceptions.ReadError)
\* (a handler that takes every exception for a not-ready condition)
IsTransientAny(e) == IsException(e)
IsTransient(e) == e.kind \in {"StorageError", "ReadError"}

(***************************************************************************)
(* bytes.hex() and bytes.fromhex().  Text is a sequence of one-character   *)
(* strings; bytes are a sequence of integers 0..255.                       *)
(***************************************************************************)
Range(s) == {s[k] : k \in DOMAIN s}

HexDigits == <<"0", "1", "2", "3", "4", "5", "6", "7",
               "8", "9", "a", "b", "c", "d", "e", "f">>

\* (a byte formatted without zero padding)
HexByteNoPad(b) ==
    IF b < 16 THEN <<HexDigits[b + 1]>>
    ELSE <<HexDigits[(b \div 16) + 1], HexDigits[(b % 16) + 1]>>
HexByte(b) == <<HexDigits[(b \div 16) + 1], HexDigits[(b % 16) + 1]>>

RECURSIVE Hex(_)
Hex(bs) == IF bs = << >> THEN << >> ELSE HexByte(Head(bs)) \o Hex(Tail(bs))

UpperDigits == <<"A", "B", "C", "D", "E", "F">>

\* (a digit table without the capital letters)
HexValLowerOnly(c) ==
    IF \E k \in 1..16 : HexDigits[k] = c
    THEN (CHOOSE k \in 1..16 : HexDigits[k] = c) - 1
    ELSE -1

\* value of a hexadecimal digit, -1 for any other character
HexVal(c) ==
    IF \E k \in 1..16 : HexDigits[k] = c
    THEN (CHOOSE k \in 1..16 : HexDigits[k] = c) - 1
    ELSE IF \E k \in 1..6 : UpperDigits[k] = c
         THEN (CHOOSE k \in 1..6 : UpperDigits[k] = c) + 9
         ELSE -1

\* bytes.fromhex(text): whitespace is skipped between byte pairs; anything
\* else that is not two hexadecimal digits raises ValueError.
FromHexError == [kind |-> "ValueError", msg |-> "non-hexadecimal number found in fromhex() arg"]

RECURSIVE FromHexOk(_)
FromHexOk(t) ==
    IF t = << >> THEN TRUE
    ELSE IF Head(t) = " " THEN FromHexOk(Tail(t))
    ELSE /\ Len(t) >= 2
         /\ HexVal(t[1]) >= 0
         /\ HexVal(t[2]) >= 0
         /\ FromHexOk(SubSeq(t, 3, Len(t)))

RECURSIVE FromHex(_)
FromHex(t) ==
    IF t = << >> THEN << >>
    ELSE IF Head(t) = " " THEN FromHex(Tail(t))
    ELSE <<HexVal(t[1]) * 16 + HexVal(t[2])>> \o FromHex(SubSeq(t, 3, Len(t)))

(***************************************************************************)
(* Inputs of the device bridge.                                            *)
(***************************************************************************)
ByteSamples == {10, 171, 255}

Payloads == UNION {[1..n -> ByteSamples] : n \in 1..MaxPayloadLen}

\* what check_data may return: a payload, or nothing
CheckDataReturns == Payloads \cup {<< >>}

Script == "broadlink_bridge.py"
Host == "192.168.1.20"
Mac == "aa:bb:cc:dd:ee:ff"

ArgvSamples ==
    { <<Script>>,
      <<Script, "discover">>,
      <<Script, "discover", "3">>,
      <<Script, "discover", "soon">>,
      <<Script, "learn", Host>>,
      <<Script, "learn", Host, Mac, "0x2712">>,
      <<Script, "learn", Host, Mac, "10002", "ir">>,
      <<Script, "learn", Host, Mac, "0x2712", "rf">>,
      <<Script, "LEARN", Host, Mac, "0x2712", "RF">>,
      <<Script, "learn", Host, Mac, "zz", "rf">>,
      <<Script, "learn", Host, "gg:hh", "0x2712", "ir">>,
      <<Script, "send", Host, Mac, "0x2712">>,
      <<Script, "send", Host, Mac, "0x2712", "CODE">>,
      <<Script, "send", Host, Mac, "zz", "CODE">>,
      <<Script, "test", Host>>,
      <<Script, "test", Host, Mac, "0x2712">>,
      <<Script, "test", Host, Mac, "zz">>,
      <<Script, "bogus">> }

\* The caller of send may hand back a learned code in any letter case.
UpperOf(c) ==
    IF \E k \in 11..16 : HexDigits[k] = c
    THEN UpperDigits[(CHOOSE k \in 11..16 : HexDigits[k] = c) - 10]
    ELSE c

RECURSIVE CaseVariants(_)
CaseVariants(t) ==
    IF t = << >> THEN {<< >>}
    ELSE {<<c>> \o u : c \in {Head(t), UpperOf(Head(t))}, u \in CaseVariants(Tail(t))}

CodeSamples ==
    { <<"0", "a", " ", "f", "F">>, <<"a", "b", "c">>, <<"x", "y">>, << >> }
        \cup UNION {CaseVariants(Hex(p)) : p \in Payloads}

\* str.lower() on the strings the model uses
Lower(s) ==
    CASE s = "LEARN" -> "learn"
      [] s = "RF" -> "rf"
      [] OTHER -> s

\* sys.argv[k] and len(sys.argv)
Arg(k) == argv[k + 1]
Argc == Len(argv)

\* int(s): the timeout argument of discover
IsInt(s) == s \in {"3", "10002"}

\* int(devtype, 16) if devtype.startswith('0x') else int(devtype)
DevtypeOk(s) == s \in {"0x2712", "10002"}
DevtypeError == [kind |-> "ValueError", msg |-> "invalid literal for int() with base 10"]

\* mac_str_to_bytes: bytes.fromhex of the address without ':' and '-'
MacOk(s) == s = Mac
MacError == [kind |-> "ValueError", msg |-> "non-hexadecimal number found in fromhex() arg"]

(***************************************************************************)
(* Responses of the device bridge (the JSON objects it prints).            *)
(***************************************************************************)
ErrorResponse(msg) == [error |-> msg]
CodeResponse(d) == [code |-> Hex(d)]
SendOk == [success |-> TRUE]
SendFailed(msg) == [success |-> FALSE, error |-> msg]
Online == [online |-> TRUE]
Offline == [online |-> FALSE]
OfflineError(msg) == [online |-> FALSE, error |-> msg]

UsageMain == "Usage: broadlink_bridge.py <command> [args...]"
UsageLearn == "Usage: learn <host> <mac> <devtype> [ir|rf]"
UsageSend == "Usage: send <host> <mac> <devtype> <code>"
UsageTest == "Usage: test <host> <mac> <devtype>"
UnknownCommand(c) == "Unknown command: " \o c

\* for _ in range(30)   (PollBudgetShort: a loop one iteration short)
PollBudgetShort == 30 - 1
PollBudget == 30

\* "if data:" on the value check_data returned
Truthy(d) == Len(d) > 0

\* The process ends: out and tr are what was printed and called by then.
Finish(out, tr, code, e) ==
    /\ stdout' = out
    /\ trace' = tr
    /\ pc' = "exited"
    /\ exitCode' = code
    /\ exc' = e

\* print(json.dumps({"error": msg})); sys.exit(1) outside any try block
UsageExit(msg) ==
    /\ Finish(Append(stdout, ErrorResponse(msg)), Append(trace, "print"), 1, NoExc)
    /\ UNCHANGED <<i, sawTransient, sawEmpty, found, data>>

(***************************************************************************)
(* main() of the device bridge.                                            *)
(***************************************************************************)
DeviceMain ==
    /\ bridge = "device"
    /\ pc = "main"
    /\ UNCHANGED <<bridge, argv, codeText>>
    /\ UNCHANGED impressVars
    /\ IF Argc < 2 THEN UsageExit(UsageMain)
       ELSE LET command == Lower(Arg(1)) IN
            CASE command = "discover" ->
                   IF Argc > 2 /\ ~IsInt(Arg(2))
                   THEN \* int(sys.argv[2]) raises outside any handler: traceback, status 1
                        /\ Finish(stdout, trace, 1,
                                  [kind |-> "ValueError", msg |-> "invalid literal for int() with base 10"])
                        /\ UNCHANGED <<i, sawTransient, sawEmpty, found, data>>
                   ELSE /\ pc' = "discover"
                        /\ UNCHANGED <<stdout, exitCode, trace, i, sawTransient, sawEmpty, found, data, exc>>
              [] command = "learn" ->
                   IF Argc < 5 THEN UsageExit(UsageLearn)
                   ELSE /\ pc' = "learn"
                        /\ UNCHANGED <<stdout, exitCode, trace, i, sawTransient, sawEmpty, found, data, exc>>
              [] command = "send" ->
                   IF Argc < 6 THEN UsageExit(UsageSend)
                   ELSE /\ pc' = "send"
                        /\ UNCHANGED <<stdout, exitCode, trace, i, sawTransient, sawEmpty, found, data, exc>>
              [] command = "test" ->
                   IF Argc < 5 THEN UsageExit(UsageTest)
                   ELSE /\ pc' = "test"
                        /\ UNCHANGED <<stdout, exitCode, trace, i, sawTransient, sawEmpty, found, data, exc>>
              [] OTHER -> UsageExit(UnknownCommand(command))

(***************************************************************************)
(* learn()                                                                 *)
(***************************************************************************)
SignalType == IF Argc > 5 THEN Arg(5) ELSE "ir"

\* The handler of learn's try block, reached by exception e after out was
\* printed and tr was called:  except Exception as e: print error; sys.exit(1).
\* A SystemExit raised by sys.exit inside the try block is no Exception and
\* ends the process with its own status.
\* (learn without its try block: the exception leaves the process uncaught)
LearnExceptUncaught(e, out, tr) ==
    Finish(out, tr, IF IsException(e) THEN 1 ELSE e.code, IF IsException(e) THEN e ELSE NoExc)

LearnExcept(e, out, tr) ==
    IF IsException(e)
    THEN Finish(Append(out, ErrorResponse(e.msg)), Append(tr, "print"), 1, e)
    ELSE Finish(out, tr, e.code, NoExc)

\* Lines 79-80, 95-97 and 113-115: time.sleep(1), then the poll.
PollStepNoSleep(call) == <<call>>

PollStep(call) == <<"sleep", call>>

\* Line 84, "if not found": where learn goes once the seek loop is over.
AfterSeekAlwaysFound(f) == "find"

AfterSeek(f) == IF f THEN "find" ELSE "seek_timeout"

\* Lines 63-74 and 106-108: construct the device, authenticate, start the phase.
LearnStart ==
    /\ bridge = "device"
    /\ pc = "learn"
    /\ UNCHANGED <<bridge, argv, codeText, data>>
    /\ UNCHANGED impressVars
    /\ i' = 0 /\ sawTransient' = FALSE /\ sawEmpty' = FALSE /\ found' = FALSE
    /\ IF ~DevtypeOk(Arg(4)) THEN LearnExcept(DevtypeError, stdout, trace)
       ELSE IF ~MacOk(Arg(3)) THEN LearnExcept(MacError, stdout, trace)
       ELSE LET t1 == trace \o <<"gendevice", "auth">>
                start == IF Lower(SignalType) = "rf" THEN "sweep_frequency" ELSE "enter_learning"
                t2 == Append(t1, start)
            IN \/ \E e \in DeviceExceptions : LearnExcept(e, stdout, t1)
               \/ \E e \in DeviceExceptions : LearnExcept(e, stdout, t2)
               \/ /\ pc' = IF start = "sweep_frequency" THEN "seek" ELSE "ir_capture"
                  /\ trace' = t2
                  /\ UNCHANGED <<stdout, exitCode, exc>>

\* Lines 78-82: one iteration of the frequency-seek loop.
SeekIteration ==
    /\ bridge = "device"
    /\ pc = "seek"
    /\ i < PollBudget
    /\ UNCHANGED <<bridge, argv, codeText, data>>
    /\ UNCHANGED impressVars
    /\ LET t == trace \o PollStep("check_frequency") IN
       \/ \* check_frequency() is true: found = True; break
          /\ found' = TRUE
          /\ pc' = AfterSeek(TRUE)
          /\ trace' = t
          /\ UNCHANGED <<stdout, exitCode, exc, i, sawTransient, sawEmpty>>
       \/ \* check_frequency() is false: next iteration, or the loop ends
          /\ i' = i + 1
          /\ sawEmpty' = TRUE
          /\ pc' = IF i + 1 < PollBudget THEN "seek" ELSE AfterSeek(found)
          /\ trace' = t
          /\ UNCHANGED <<stdout, exitCode, exc, sawTransient, found>>
       \/ \* check_frequency() raises: no handler inside the loop
          \E e \in DeviceExceptions :
             /\ LearnExcept(e, stdout, t)
             /\ sawTransient' = (sawTransient \/ IsTransient(e))
             /\ UNCHANGED <<i, sawEmpty, found>>

\* (the not-found branch without its cancel_sweep_frequency call)
SeekTimeoutNoCancel ==
    /\ bridge = "device"
    /\ pc = "seek_timeout"
    /\ UNCHANGED <<bridge, argv, codeText, data, i, sawTransient, sawEmpty, found>>
    /\ UNCHANGED impressVars
    /\ LearnExcept(SystemExit(1), Append(stdout, ErrorResponse("No RF frequency found")),
                   Append(trace, "print"))

\* Lines 84-87: the frequency was not found.
SeekTimeout ==
    /\ bridge = "device"
    /\ pc = "seek_timeout"
    /\ UNCHANGED <<bridge, argv, codeText, data, i, sawTransient, sawEmpty, found>>
    /\ UNCHANGED impressVars
    /\ LET out == Append(stdout, ErrorResponse("No RF frequency found"))
           t == trace \o <<"print", "cancel_sweep_frequency">>
       IN \/ LearnExcept(SystemExit(1), out, t)
          \/ \E e \in DeviceExceptions : LearnExcept(e, out, t)

\* Line 90
FindRfPacket ==
    /\ bridge = "device"
    /\ pc = "find"
    /\ UNCHANGED <<bridge, argv, codeText, data, found>>
    /\ UNCHANGED impressVars
    /\ i' = 0 /\ sawTransient' = FALSE /\ sawEmpty' = FALSE
    /\ LET t == Append(trace, "find_rf_packet") IN
       \/ /\ pc' = "rf_capture"
          /\ trace' = t
          /\ UNCHANGED <<stdout, exitCode, exc>>
       \/ \E e \in DeviceExceptions : LearnExcept(e, stdout, t)

\* One iteration of a capture loop (lines 93-101 for rf, 111-120 for ir);
\* p is the loop's position, timeout the position after the loop.
CaptureIteration(p, timeout) ==
    /\ bridge = "device"
    /\ pc = p
    /\ i < PollBudget
    /\ UNCHANGED <<bridge, argv, codeText>>
    /\ UNCHANGED impressVars
    /\ LET t == trace \o PollStep("check_data")
           next == IF i + 1 < PollBudget THEN p ELSE timeout
       IN
       \/ \E d \in CheckDataReturns :
             /\ data' = d
             /\ IF Truthy(d)
                THEN \* print the code and return: main returns, status 0
                     /\ Finish(Append(stdout, CodeResponse(d)), Append(t, "print"), 0, NoExc)
                     /\ UNCHANGED <<i, sawTransient, sawEmpty, found>>
                ELSE /\ i' = i + 1
                     /\ sawEmpty' = TRUE
                     /\ pc' = next
                     /\ trace' = t
                     /\ exc' = NoExc
                     /\ UNCHANGED <<stdout, exitCode, sawTransient, found>>
       \/ \E e \in DeviceExceptions :
             /\ UNCHANGED data
             /\ IF IsTransient(e)
                THEN \* continue
                     /\ i' = i + 1
                     /\ sawTransient' = TRUE
                     /\ pc' = next
                     /\ trace' = t
                     /\ exc' = e
                     /\ UNCHANGED <<stdout, exitCode, sawEmpty, found>>
                ELSE /\ LearnExcept(e, stdout, t)
                     /\ UNCHANGED <<i, sawTransient, sawEmpty, found>>

\* Lines 103-104 and 122-123: the capture loop ran out.
CaptureTimeout(p, msg) ==
    /\ bridge = "device"
    /\ pc = p
    /\ UNCHANGED <<bridge, argv, codeText, data, i, sawTransient, sawEmpty, found>>
    /\ UNCHANGED impressVars
    /\ LearnExcept(SystemExit(1), Append(stdout, ErrorResponse(msg)), Append(trace, "print"))

RfCaptureIteration == CaptureIteration("rf_capture", "rf_timeout")
RfCaptureTimeout == CaptureTimeout("rf_timeout", "RF learning timeout")
IrCaptureIteration == CaptureIteration("ir_capture", "ir_timeout")
IrCaptureTimeout == CaptureTimeout("ir_timeout", "IR learning timeout")

(***************************************************************************)
(* send()                                                                  *)
(***************************************************************************)
\* (the handler of send without its sys.exit(1))
SendExceptNoExit(e, out, tr) ==
    IF IsException(e)
    THEN Finish(Append(out, SendFailed(e.msg)), Append(tr, "print"), 0, e)
    ELSE Finish(out, tr, e.code, NoExc)

\* except Exception as e: print {"success": false, "error": str(e)}; sys.exit(1)
SendExcept(e, out, tr) ==
    IF IsException(e)
    THEN Finish(Append(out, SendFailed(e.msg)), Append(tr, "print"), 1, e)
    ELSE Finish(out, tr, e.code, NoExc)

SendRun ==
    /\ bridge = "device"
    /\ pc = "send"
    /\ UNCHANGED <<bridge, argv, codeText, i, sawTransient, sawEmpty, found>>
    /\ UNCHANGED impressVars
    /\ IF ~DevtypeOk(Arg(4)) THEN SendExcept(DevtypeError, stdout, trace) /\ UNCHANGED data
       ELSE IF ~MacOk(Arg(3)) THEN SendExcept(MacError, stdout, trace) /\ UNCHANGED data
       ELSE LET t1 == trace \o <<"gendevice", "auth">>
                t2 == Append(t1, "send_data")
            IN \/ \E e \in DeviceExceptions : SendExcept(e, stdout, t1) /\ UNCHANGED data
               \/ IF ~FromHexOk(codeText)
                  THEN SendExcept(FromHexError, stdout, t1) /\ UNCHANGED data
                  ELSE /\ data' = FromHex(codeText)
                       /\ \/ \E e \in DeviceExceptions : SendExcept(e, stdout, t2)
                          \/ Finish(Append(stdout, SendOk), Append(t2, "print"), 0, NoExc)

(***************************************************************************)
(* test()                                                                  *)
(***************************************************************************)
\* (test without its "except socket.timeout" clause)
TestExceptNoTimeoutClause(e, out, tr) ==
    IF IsException(e)
    THEN Finish(Append(out, OfflineError(e.msg)), Append(tr, "print"), 0, e)
    ELSE Finish(out, tr, e.code, NoExc)

\* except socket.timeout: {"online": false}
\* except Exception as e: {"online": false, "error": str(e)}
\* Neither clause exits: test returns and the process ends with status 0.
TestExcept(e, out, tr) ==
    IF e.kind = "socket.timeout"
    THEN Finish(Append(out, Offline), Append(tr, "print"), 0, e)
    ELSE IF IsException(e)
    THEN Finish(Append(out, OfflineError(e.msg)), Append(tr, "print"), 0, e)
    ELSE Finish(out, tr, e.code, NoExc)

TestRun ==
    /\ bridge = "device"
    /\ pc = "test"
    /\ UNCHANGED <<bridge, argv, codeText, i, sawTransient, sawEmpty, found, data>>
    /\ UNCHANGED impressVars
    /\ IF ~DevtypeOk(Arg(4)) THEN TestExcept(DevtypeError, stdout, trace)
       ELSE IF ~MacOk(Arg(3)) THEN TestExcept(MacError, stdout, trace)
       ELSE LET t1 == trace \o <<"gendevice", "auth">> IN
            \/ \E e \in DeviceExceptions : TestExcept(e, stdout, t1)
            \/ Finish(Append(stdout, Online), Append(t1, "print"), 0, NoExc)

(***************************************************************************)
(* discover()                                                              *)
(***************************************************************************)
DeviceInfo(k) == [type |-> "0x2712", model |-> "RM4", host |-> k]

\* the devices of 1..n, in order, whose auth() did not raise
Authenticated(n, ok) ==
    LET all == [k \in 1..n |-> k]
        kept == SelectSeq(all, LAMBDA k : k \in ok)
    IN [k \in 1..Len(kept) |-> DeviceInfo(kept[k])]

DiscoverRun ==
    /\ bridge = "device"
    /\ pc = "discover"
    /\ UNCHANGED <<bridge, argv, codeText, i, sawTransient, sawEmpty, found, data>>
    /\ UNCHANGED impressVars
    /\ \/ \E e \in DeviceExceptions :
             Finish(Append(stdout, ErrorResponse(e.msg)),
                    trace \o <<"discover", "print">>, 1, e)
       \/ \E n \in 0..MaxDevices : \E ok \in SUBSET (1..n) :
             Finish(Append(stdout, [array |-> Authenticated(n, ok)]),
                    trace \o <<"discover">> \o [k \in 1..n |-> "auth"] \o <<"print">>,
                    0, NoExc)

(***************************************************************************)
(* Presentation bridge: input lines, calls and responses.                  *)
(***************************************************************************)
UNO_PORT == 2002

\* An optional value is << >> (absent / null) or <<v>>.
ObjectLine(c, fp, fs, sn) ==
    [kind |-> "object", command |-> c, file_path |-> fp, from_slide |-> fs, slide_number |-> sn]
OtherLine(k) ==
    [kind |-> k, command |-> "", file_path |-> "", from_slide |-> << >>, slide_number |-> << >>]

ControllerCommands ==
    {"next", "previous", "goto_slide", "blank_screen", "white_screen", "unblank"}
KnownCommands ==
    {"quit", "is_running", "open", "start_slideshow", "stop_slideshow", "get_status"}
        \cup ControllerCommands

Lines ==
    {OtherLine("blank"), OtherLine("malformed"), OtherLine("nonobject")}
    \cup {ObjectLine(c, "", << >>, << >>) :
             c \in (KnownCommands \ {"open"}) \cup {"bogus", ""}}
    \cup {ObjectLine("open", fp, << >>, << >>) : fp \in {"", "/srv/talk.odp"}}
    \cup {ObjectLine("start_slideshow", "", <<2>>, << >>),
          ObjectLine("goto_slide", "", << >>, <<3>>)}

\* A call made while a line is handled: what was called, with which argument,
\* and what came back ("raise" when it raised).
Call(op, res) == [op |-> op, arg |-> << >>, res |-> res]
CallArg(op, a, res) == [op |-> op, arg |-> <<a>>, res |-> res]

UnoExceptions ==
    { [kind |-> "RuntimeException", msg |-> "Binary URP bridge disposed"],
      [kind |-> "DisposedException", msg |-> ""] }

JSONDecodeError == [kind |-> "JSONDecodeError", msg |-> "Expecting value: line 1 column 1 (char 0)"]
AttributeError == [kind |-> "AttributeError", msg |-> "'list' object has no attribute 'get'"]

\* respond(success, error=None, **kwargs): "if error:" drops None and "".
Respond(success, error) ==
    IF error # "" THEN [success |-> success, error |-> error] ELSE [success |-> success]
RespondRunning(running) == [success |-> TRUE, running |-> running]
RespondData(d) == [success |-> TRUE, data |-> d]

NoUnoMessage == "LibreOffice is not running or UNO socket not available"

\* launch_libreoffice_with_socket: the argument vector given to subprocess.Popen
\* (LaunchCmdNoFile: the document left out of the arguments)
LaunchCmdNoFile(fp) ==
    <<"soffice", "--impress",
      "--accept=socket,host=localhost,port=" \o ToString(UNO_PORT) \o ";urp;">>
LaunchCmd(fp) ==
    <<"soffice", "--impress",
      "--accept=socket,host=localhost,port=" \o ToString(UNO_PORT) \o ";urp;">>
        \o (IF fp # "" THEN <<fp>> ELSE << >>)

\* get_presentation(desktop): the calls it makes and their results.  Any
\* exception is swallowed and None returned.
GetPresentationRuns ==
    {<<Call("getCurrentComponent", r)>> : r \in {"None", "raise"}}
    \cup {<<Call("getCurrentComponent", "doc"), Call("getPresentation", r)>> :
             r \in {"presentation", "None", "raise"}}
HasPresentation(run) == run[Len(run)].res = "presentation"

\* get_slideshow_controller(desktop), likewise
GetSlideshowControllerRuns ==
    {<<Call("getCurrentComponent", r)>> : r \in {"None", "raise"}}
    \cup {<<Call("getCurrentComponent", "doc"), Call("getPresentation", r)>> :
             r \in {"None", "raise"}}
    \cup {<<Call("getCurrentComponent", "doc"), Call("getPresentation", "presentation"),
            Call("isRunning", r)>> : r \in {"false", "raise"}}
    \cup {<<Call("getCurrentComponent", "doc"), Call("getPresentation", "presentation"),
            Call("isRunning", "true"), Call("getController", r)>> :
             r \in {"controller", "None", "raise"}}
HasController(run) == run[Len(run)].res = "controller"

(***************************************************************************)
(* main() of the presentation bridge: one iteration of "for line in        *)
(* sys.stdin".                                                             *)
(***************************************************************************)
ReadLine(l) ==
    /\ bridge = "impress"
    /\ pc = "loop"
    /\ nlines < MaxLines
    /\ nlines' = nlines + 1
    /\ line' = l
    /\ resolvable' \in BOOLEAN
    /\ UNCHANGED bridge
    /\ UNCHANGED deviceVars

\* (a lookup that keeps answering None once the socket was missing)
GetUnoContextNever(r) == "None"

\* get_uno_context(): the context, or None when uno is not importable or the
\* resolver raises; r tells whether the socket is resolvable now.
GetUnoContext(r) == IF r THEN "ctx" ELSE "None"

\* The except clauses of main: which exceptions they catch, and what is printed.
\* (MainCatchesJsonOnly: main without its second except clause)
MainCatchesJsonOnly(e) == e.kind = "JSONDecodeError"
MainCatches(e) == IsException(e)

MainExcept(e) ==
    IF e.kind = "JSONDecodeError"
    THEN Respond(FALSE, "Invalid JSON: " \o e.msg)
    ELSE Respond(FALSE, "Unexpected error: " \o e.msg)

\* The rest of the iteration for a non-blank line: handle_command made the
\* calls o, printed resps and returned (e = NoExc) or raised e; p is the
\* argument vector of the Popen call it made, if any.
End(o, resps, e, p) ==
    /\ ops' = o
    /\ spawned' = p
    /\ nonblank' = nonblank + 1
    /\ exc' = e
    /\ IF e = NoExc
       THEN /\ stdout' = stdout \o resps
            /\ UNCHANGED <<pc, exitCode>>
       ELSE IF MainCatches(e)
       THEN /\ stdout' = stdout \o resps \o <<MainExcept(e)>>
            /\ UNCHANGED <<pc, exitCode>>
       ELSE \* SystemExit passes the handlers, any other uncaught exception is a crash
            /\ stdout' = stdout \o resps
            /\ pc' = "exited"
            /\ exitCode' = IF e.kind = "SystemExit" THEN e.code ELSE 1

\* line.strip() is empty: continue
ImpressBlank ==
    /\ ReadLine(OtherLine("blank"))
    /\ UNCHANGED <<stdout, pc, exitCode, exc, nonblank, ops, spawned>>

\* json.loads raises, or the value has no .get
ImpressBadJson ==
    \/ ReadLine(OtherLine("malformed")) /\ End(<< >>, << >>, JSONDecodeError, << >>)
    \/ ReadLine(OtherLine("nonobject")) /\ End(<< >>, << >>, AttributeError, << >>)

\* end of input: the for loop ends and main returns
ImpressEof ==
    /\ bridge = "impress"
    /\ pc = "loop"
    /\ pc' = "exited"
    /\ exitCode' = 0
    /\ UNCHANGED <<bridge, stdout, exc>>
    /\ UNCHANGED deviceVars
    /\ UNCHANGED impressVars

(***************************************************************************)
(* handle_command                                                          *)
(***************************************************************************)
\* cmd_data.get("command", "") selects the branch.
CommandLines(cs) == {l \in Lines : l.kind = "object" /\ l.command \in cs}

\* (a quit that answers and returns to the loop)
QuitNoExit == NoExc

\* line 122: sys.exit(0)
QuitExit == SystemExit(0)

\* lines 120-122
ImpressQuit ==
    \E l \in CommandLines({"quit"}) :
       /\ ReadLine(l)
       /\ End(<< >>, <<Respond(TRUE, "")>>, QuitExit, << >>)

\* lines 124-127; get_uno_context returns None when uno is not importable
\* or the resolver raises.
ImpressIsRunning ==
    \E l \in CommandLines({"is_running"}) :
       /\ ReadLine(l)
       /\ LET c == GetUnoContext(resolvable') IN
          End(<<Call("get_uno_context", c)>>, <<RespondRunning(c # "None")>>, NoExc, << >>)

\* lines 129-152
ImpressOpen ==
    \E l \in CommandLines({"open"}) : \E exists \in BOOLEAN :
       /\ ReadLine(l)
       /\ LET fp == l.file_path
              o1 == <<CallArg("os.path.exists", fp, IF exists THEN "true" ELSE "false")>>
              c == GetUnoContext(resolvable')
              ctx == Append(o1, Call("get_uno_context", c))
          IN IF fp = "" THEN \* no such path
                  /\ ~exists
                  /\ End(o1, <<Respond(FALSE, "File not found: " \o fp)>>, NoExc, << >>)
             ELSE IF ~exists
             THEN End(o1, <<Respond(FALSE, "File not found: " \o fp)>>, NoExc, << >>)
             ELSE IF c = "None"
             THEN \* no session: launch_libreoffice_with_socket(file_path)
                     \E r \in {"ok", "raise"} :
                        End(Append(ctx, Call("Popen", r)),
                            <<IF r = "ok" THEN Respond(TRUE, "")
                              ELSE Respond(FALSE, "Failed to launch LibreOffice")>>,
                            NoExc, LaunchCmd(fp))
             ELSE \/ \* session: load the document through the desktop
                     \E e \in UnoExceptions :
                        End(Append(ctx, Call("get_desktop", "raise")),
                            <<Respond(FALSE, e.msg)>>, NoExc, << >>)
                  \/ \E e \in UnoExceptions :
                        End(ctx \o <<Call("get_desktop", "desktop"),
                                     CallArg("loadComponentFromURL", "file://" \o fp, "raise")>>,
                            <<Respond(FALSE, e.msg)>>, NoExc, << >>)
                  \/ End(ctx \o <<Call("get_desktop", "desktop"),
                                  CallArg("loadComponentFromURL", "file://" \o fp, "ok")>>,
                         <<Respond(TRUE, "")>>, NoExc, << >>)

\* lines 154-160: every other command first resolves the session and the
\* desktop.  NoDesktop is the command ending there; otherwise the branch of
\* the command runs after the calls DesktopCalls.
NoDesktop ==
    LET c == GetUnoContext(resolvable') IN
    IF c = "None"
    THEN End(<<Call("get_uno_context", c)>>, <<Respond(FALSE, NoUnoMessage)>>, NoExc, << >>)
    ELSE \E e \in UnoExceptions :
            \* get_desktop is outside every try block of handle_command
            End(<<Call("get_uno_context", c), Call("get_desktop", "raise")>>, << >>, e, << >>)
HasDesktop == GetUnoContext(resolvable') # "None"
DesktopCalls == <<Call("get_uno_context", "ctx"), Call("get_desktop", "desktop")>>

\* a handler's "except Exception as e: respond(False, error=str(e))"
Failed(o, e) == End(o, <<Respond(FALSE, e.msg)>>, NoExc, << >>)
Succeeded(o) == End(o, <<Respond(TRUE, "")>>, NoExc, << >>)

\* lines 162-182
StartSlideshow(l, o) ==
    \E g \in GetPresentationRuns :
       IF ~HasPresentation(g)
       THEN End(o \o g, <<Respond(FALSE, "No presentation document open")>>, NoExc, << >>)
       ELSE \/ \E e \in UnoExceptions : Failed(o \o g \o <<Call("start", "raise")>>, e)
            \/ LET o2 == o \o g \o <<Call("start", "ok")>> IN
               IF l.from_slide = << >> THEN Succeeded(o2)
               ELSE \E c \in GetSlideshowControllerRuns :
                       LET o3 == o2 \o <<Call("sleep", "ok")>> \o c
                           idx == l.from_slide[1] - 1
                       IN IF ~HasController(c) THEN Succeeded(o3)
                          ELSE \/ Succeeded(Append(o3, CallArg("gotoSlideIndex", idx, "ok")))
                               \/ \E e \in UnoExceptions :
                                     Failed(Append(o3, CallArg("gotoSlideIndex", idx, "raise")), e)

ImpressStartSlideshow ==
    \E l \in CommandLines({"start_slideshow"}) :
       /\ ReadLine(l)
       /\ (NoDesktop \/ (HasDesktop /\ StartSlideshow(l, DesktopCalls)))

\* lines 184-191
StopSlideshow(l, o) ==
    \E g \in GetPresentationRuns :
       IF ~HasPresentation(g) THEN Succeeded(o \o g)
       ELSE \/ Succeeded(o \o g \o <<Call("isRunning", "false")>>)
            \/ \E e \in UnoExceptions : Failed(o \o g \o <<Call("isRunning", "raise")>>, e)
            \/ Succeeded(o \o g \o <<Call("isRunning", "true"), Call("end", "ok")>>)
            \/ \E e \in UnoExceptions :
                  Failed(o \o g \o <<Call("isRunning", "true"), Call("end", "raise")>>, e)

ImpressStopSlideshow ==
    \E l \in CommandLines({"stop_slideshow"}) :
       /\ ReadLine(l)
       /\ (NoDesktop \/ (HasDesktop /\ StopSlideshow(l, DesktopCalls)))

\* The call on the slideshow controller each command makes
\* (lines 199, 210, 221-222, 233, 244, 255), with res filled in.
ControllerCall(l, res) ==
    CASE l.command = "next" -> Call("gotoNextSlide", res)
      [] l.command = "previous" -> Call("gotoPreviousSlide", res)
      [] l.command = "goto_slide" ->
           CallArg("gotoSlideIndex",
                   (IF l.slide_number = << >> THEN 1 ELSE l.slide_number[1]) - 1, res)
      [] l.command = "blank_screen" -> CallArg("blankScreen", 0, res)
      [] l.command = "white_screen" -> CallArg("blankScreen", 16777215, res)
      [] l.command = "unblank" -> Call("resume", res)

\* lines 193-258: next, previous, goto_slide, blank_screen, white_screen, unblank
ControllerCommand(l, o) ==
    \E c \in GetSlideshowControllerRuns :
       IF ~HasController(c)
       THEN End(o \o c, <<Respond(FALSE, "No slideshow active")>>, NoExc, << >>)
       ELSE \/ Succeeded(Append(o \o c, ControllerCall(l, "ok")))
            \/ \E e \in UnoExceptions : Failed(Append(o \o c, ControllerCall(l, "raise")), e)

ImpressControllerCommand ==
    \E l \in CommandLines(ControllerCommands) :
       /\ ReadLine(l)
       /\ (NoDesktop \/ (HasDesktop /\ ControllerCommand(l, DesktopCalls)))

\* The data record of get_status; current and total are optional values.
StatusData(active, current, total, blanked) ==
    [slideshow_active |-> active, current_slide |-> current,
     total_slides |-> total, blanked |-> blanked]

\* lines 260-289
GetStatus(l, o) ==
    \/ \E e \in UnoExceptions : Failed(Append(o, Call("getCurrentComponent", "raise")), e)
    \/ End(Append(o, Call("getCurrentComponent", "None")),
           <<RespondData(StatusData(FALSE, << >>, << >>, FALSE))>>, NoExc, << >>)
    \/ \E cnt \in {"raise", "5"} : \E g \in GetPresentationRuns :
          LET total == IF cnt = "raise" THEN << >> ELSE <<5>>
              o2 == o \o <<Call("getCurrentComponent", "doc"), Call("getCount", cnt)>> \o g
          IN IF ~HasPresentation(g)
             THEN End(o2, <<RespondData(StatusData(FALSE, << >>, total, FALSE))>>, NoExc, << >>)
             ELSE \/ \E e \in UnoExceptions : Failed(Append(o2, Call("isRunning", "raise")), e)
                  \/ End(Append(o2, Call("isRunning", "false")),
                         <<RespondData(StatusData(FALSE, << >>, total, FALSE))>>, NoExc, << >>)
                  \/ \E c \in GetSlideshowControllerRuns :
                        LET o3 == Append(o2, Call("isRunning", "true")) \o c IN
                        IF ~HasController(c)
                        THEN End(o3, <<RespondData(StatusData(TRUE, << >>, total, FALSE))>>,
                                 NoExc, << >>)
                        ELSE \/ \E e \in UnoExceptions :
                                   Failed(Append(o3, Call("getCurrentSlideIndex", "raise")), e)
                             \/ \E e \in UnoExceptions :
                                   Failed(o3 \o <<Call("getCurrentSlideIndex", "1"),
                                                  Call("isPaused", "raise")>>, e)
                             \/ \E paused \in BOOLEAN :
                                   End(o3 \o <<Call("getCurrentSlideIndex", "1"),
                                               Call("isPaused", IF paused THEN "true" ELSE "false")>>,
                                       <<RespondData(StatusData(TRUE, <<1 + 1>>, total, paused))>>,
                                       NoExc, << >>)

ImpressGetStatus ==
    \E l \in CommandLines({"get_status"}) :
       /\ ReadLine(l)
       /\ (NoDesktop \/ (HasDesktop /\ GetStatus(l, DesktopCalls)))

\* lines 291-292: the final else of the command chain
Unknown(l, o) == End(o, <<Respond(FALSE, "Unknown command: " \o l.command)>>, NoExc, << >>)

ImpressUnknown ==
    \E l \in {x \in Lines : x.kind = "object" /\ x.command \notin KnownCommands} :
       /\ ReadLine(l)
       /\ (NoDesktop \/ (HasDesktop /\ Unknown(l, DesktopCalls)))

(***************************************************************************)
(* The specification.                                                      *)
(***************************************************************************)
Init ==
    /\ bridge \in {"device", "impress"}
    /\ argv \in (IF bridge = "device" THEN ArgvSamples ELSE {<<"impress_controller.py">>})
    /\ codeText \in (IF bridge = "device" /\ Len(argv) > 5 /\ argv[6] = "CODE"
                     THEN CodeSamples ELSE {<< >>})
    /\ pc = IF bridge = "device" THEN "main" ELSE "loop"
    /\ stdout = << >>
    /\ exitCode = -1
    /\ trace = << >>
    /\ i = 0
    /\ sawTransient = FALSE
    /\ sawEmpty = FALSE
    /\ found = FALSE
    /\ data = << >>
    /\ exc = NoExc
    /\ nlines = 0
    /\ nonblank = 0
    /\ line = OtherLine("blank")
    /\ resolvable = FALSE
    /\ ops = << >>
    /\ spawned = << >>

Next ==
    \/ DeviceMain
    \/ DiscoverRun
    \/ LearnStart
    \/ SeekIteration
    \/ SeekTimeout
    \/ FindRfPacket
    \/ RfCaptureIteration
    \/ RfCaptureTimeout
    \/ IrCaptureIteration
    \/ IrCaptureTimeout
    \/ SendRun
    \/ TestRun
    \/ ImpressBlank
    \/ ImpressBadJson
    \/ ImpressQuit
    \/ ImpressIsRunning
    \/ ImpressOpen
    \/ ImpressStartSlideshow
    \/ ImpressStopSlideshow
    \/ ImpressControllerCommand
    \/ ImpressGetStatus
    \/ ImpressUnknown
    \/ ImpressEof

Spec == Init /\ [][Next]_vars

TypeOK ==
    /\ bridge \in {"device", "impress"}
    /\ exitCode \in {-1, 0, 1}
    /\ (pc = "exited") = (exitCode # -1)
    /\ i \in 0..PollBudget
    /\ nonblank <= nlines /\ nlines <= MaxLines

(***************************************************************************)
(* Properties.                                                             *)
(***************************************************************************)
Count(s, x) == Cardinality({k \in DOMAIN s : s[k] = x})
First(s, x) == CHOOSE k \in DOMAIN s : s[k] = x /\ \A j \in 1..(k - 1) : s[j] # x
LastOf(s) == s[Len(s)]

\* main accepted a learn command and called learn()
LearnAccepted == bridge = "device" /\ Argc >= 5 /\ Lower(Arg(1)) = "learn"
LearnRf == LearnAccepted /\ Argc > 5 /\ Arg(5) \in {"rf", "RF"}

PollCalls == {"check_frequency", "check_data"}
\* the recognized transient not-ready conditions
NotReadyKinds == {"StorageError", "ReadError"}

\* The call that raised exc: the last call of the trace, a print of the
\* handler that caught it aside.
RaisingCall == IF LastOf(trace) = "print" THEN trace[Len(trace) - 1] ELSE LastOf(trace)
PollRaised ==
    /\ LearnAccepted
    /\ exc # NoExc
    /\ Len(trace) >= 2
    /\ RaisingCall \in PollCalls

\* C1: learn emits exactly one response before the process ends, never zero
\* and never two, whatever the device calls do; it is {code}, a timeout error
\* or a propagated device error.
C1_LearnExactlyOneResponse ==
    LearnAccepted =>
       /\ Len(stdout) <= 1
       /\ pc = "exited" =>
             /\ Len(stdout) = 1
             /\ DOMAIN stdout[1] \in {{"code"}, {"error"}}

\* C2: when the frequency-seek budget runs out, cancel_sweep_frequency is
\* invoked exactly once, and before the frequency-timeout error is emitted.
C2_CancelBeforeFrequencyTimeoutResponse ==
    (LearnAccepted /\ ErrorResponse("No RF frequency found") \in Range(stdout)) =>
       /\ Count(trace, "cancel_sweep_frequency") = 1
       /\ First(trace, "cancel_sweep_frequency") < First(trace, "print")

\* every character of t is a lowercase hexadecimal digit
IsLowerHex(t) == \A k \in DOMAIN t : t[k] \in Range(HexDigits)

\* C3: when the polls of a capture phase before the N-th (N <= 30) all raised
\* a recognized transient error and the N-th returns a non-empty payload,
\* learn ends at once: one response carrying that payload as lowercase hex
\* text, status zero, N polls and none after.
C3_PollSuccess ==
    (LearnAccepted /\ data # << >> /\ ~sawEmpty) =>
       /\ pc = "exited"
       /\ exitCode = 0
       /\ Len(stdout) = 1
       /\ DOMAIN stdout[1] = {"code"}
       /\ IsLowerHex(stdout[1].code)
       /\ Len(stdout[1].code) = 2 * Len(data)
       /\ FromHex(stdout[1].code) = data
       /\ Count(trace, "check_data") = i + 1
       /\ i + 1 <= 30
       /\ SubSeq(trace, Len(trace) - 1, Len(trace)) = <<"check_data", "print">>

\* C3 witness: the payload arrives at the 30th poll of a radio-frequency
\* capture after 29 transient errors.
C3_Witness ==
    /\ LearnRf
    /\ pc = "exited"
    /\ data # << >>
    /\ sawTransient /\ ~sawEmpty
    /\ i = 29
    /\ stdout = <<[code |-> Hex(data)]>>

\* C4: when every poll of a capture phase raised a recognized transient
\* error, learn ends after exactly 30 polls with one timeout error response
\* that has no code field, and a non-zero status.
C4_PollTimeout ==
    (/\ LearnAccepted
     /\ pc = "exited"
     /\ "check_data" \in Range(trace)
     /\ ~sawEmpty
     /\ data = << >>
     /\ exc = NoExc) =>
       /\ Count(trace, "check_data") = 30
       /\ Len(stdout) = 1
       /\ "code" \notin DOMAIN stdout[1]
       /\ stdout[1] = [error |-> IF LearnRf THEN "RF learning timeout"
                                           ELSE "IR learning timeout"]
       /\ exitCode # 0

\* C4 witness: an infrared capture whose 30 polls all raised a transient error
C4_Witness ==
    /\ LearnAccepted /\ ~LearnRf
    /\ pc = "exited"
    /\ sawTransient /\ ~sawEmpty
    /\ Count(trace, "check_data") = 30
    /\ stdout = <<[error |-> "IR learning timeout"]>>

\* C5: an unrecognized error raised by a poll aborts learn at once: nothing
\* but the response follows the poll, the loop counter is not advanced, and
\* the single response carries the error's message verbatim.
C5_UnrecognizedErrorAborts ==
    (PollRaised /\ exc.kind \notin NotReadyKinds) =>
       /\ pc = "exited"
       /\ exitCode = 1
       /\ LastOf(trace) = "print"
       /\ trace[Len(trace) - 1] \in PollCalls
       /\ Count(trace, "sleep") = Count(trace, "check_frequency") + Count(trace, "check_data")
       /\ Count(trace, RaisingCall) = i + 1
       /\ i + 1 <= 30
       /\ stdout = <<[error |-> exc.msg]>>

\* C5 witness: the third check_data poll raises OSError
C5_Witness ==
    /\ PollRaised
    /\ exc = NetworkError
    /\ RaisingCall = "check_data"
    /\ i = 2
    /\ pc = "exited"
    /\ stdout = <<[error |-> "Network is unreachable"]>>

\* C6: in every polling phase (check_frequency as well as check_data) a
\* recognized transient error raised by a poll lets polling go on and is not
\* surfaced in a response.
C6_TransientNeverSurfaced ==
    (PollRaised /\ exc.kind \in NotReadyKinds) =>
       /\ pc # "exited"
       /\ stdout = << >>

\* the last line read was an object with this command, and it was answered
Handled(cs) ==
    /\ bridge = "impress"
    /\ nonblank >= 1
    /\ line.kind = "object"
    /\ line.command \in cs
SessionObtained == \E k \in DOMAIN ops : ops[k] = Call("get_uno_context", "ctx")

\* C7: get_status answers success:true with a data record whenever
\* get_uno_context returned a context, whichever sub-reads fail.
C7_GetStatusAlwaysSucceeds ==
    (Handled({"get_status"}) /\ SessionObtained) =>
       /\ Len(stdout) >= 1
       /\ "data" \in DOMAIN LastOf(stdout)
       /\ LastOf(stdout).success = TRUE

\* C8: in both bridges a command name that is none of the known ones is answered with the
\* "unknown command" failure, whether or not a session is resolvable, and no
\* handler or endpoint operation runs for it.
C8_UnknownCommand ==
    /\ (/\ bridge = "device" /\ pc = "exited" /\ Argc >= 2
        /\ Lower(Arg(1)) \notin {"discover", "learn", "send", "test"}) =>
          /\ stdout = <<[error |-> "Unknown command: " \o Lower(Arg(1))]>>
          /\ trace = <<"print">>
          /\ exitCode = 1
    /\ (/\ bridge = "impress" /\ nonblank >= 1 /\ line.kind = "object"
        /\ line.command \notin KnownCommands \cup {""}) =>
          /\ Len(stdout) >= 1
          /\ LastOf(stdout) = [success |-> FALSE, error |-> "Unknown command: " \o line.command]
          /\ \A k \in DOMAIN ops : ops[k].op = "get_uno_context"

PopenCalls == {k \in DOMAIN ops : ops[k].op = "Popen"}
AcceptArgument == "--accept=socket,host=localhost,port=2002;urp;"

\* The launch of the open command: one Popen call, the last call of the
\* line, with the port enabled and the document among the arguments; the
\* response reports the outcome of the spawn alone.
LaunchedAndReported ==
    /\ PopenCalls = {Len(ops)}
    /\ Len(spawned) = 4
    /\ spawned[1] = "soffice"
    /\ AcceptArgument \in Range(spawned)
    /\ spawned[4] = line.file_path
    /\ Len(stdout) >= 1
    /\ LastOf(stdout).success = (LastOf(ops).res = "ok")
    /\ ~LastOf(stdout).success => "error" \in DOMAIN LastOf(stdout)

\* C9 as stated: open of a document with no resolvable session always attempts the launch
\* with the document path, and answers success exactly when the spawn did.
C9_OpenWithoutSessionLaunches ==
    (Handled({"open"}) /\ line.file_path # "" /\ ~resolvable) => LaunchedAndReported

\* C9 amended: that holds when the target path exists; when it does not, the
\* answer is the "File not found" failure and nothing is launched.
C9_OpenWithoutSessionLaunchesExistingFile ==
    (Handled({"open"}) /\ ~resolvable) =>
       IF ops[1].res = "true"
       THEN LaunchedAndReported
       ELSE /\ PopenCalls = {}
            /\ spawned = << >>
            /\ Len(stdout) >= 1
            /\ LastOf(stdout) = [success |-> FALSE, error |-> "File not found: " \o line.file_path]

\* C9 witness: the file exists, no session, the spawn succeeds
C9_Witness ==
    /\ Handled({"open"})
    /\ ~resolvable
    /\ spawned = <<"soffice", "--impress", AcceptArgument, "/srv/talk.odp">>
    /\ LastOf(ops) = Call("Popen", "ok")
    /\ LastOf(stdout) = [success |-> TRUE]

\* C10: the presentation bridge prints exactly one line, holding a success
\* boolean, for every non-blank input line, whatever the calls do.
C10_OneResponsePerLine ==
    bridge = "impress" =>
       /\ Len(stdout) = nonblank
       /\ \A k \in DOMAIN stdout :
             /\ "success" \in DOMAIN stdout[k]
             /\ stdout[k].success \in BOOLEAN

\* C10 witness: two lines answered, the second after an exception that
\* escaped handle_command, and the loop still running
C10_Witness ==
    /\ bridge = "impress"
    /\ nonblank >= 2
    /\ Len(stdout) = nonblank
    /\ exc \in UnoExceptions
    /\ pc = "loop"

\* C11: in the presentation bridge a line that is answered with a failure
\* (absent session, handler exception, unknown command, malformed line)
\* leaves the loop waiting for the next line; the process ends only when it
\* handles a quit command or reaches the end of its input.
C11_LoopSurvivesFailures ==
    [][bridge = "impress" =>
          /\ (nonblank' = nonblank + 1 /\ Len(stdout') > 0 /\ ~LastOf(stdout').success)
                => pc' = "loop"
          /\ (pc = "loop" /\ pc' = "exited") =>
                \/ nlines' = nlines /\ stdout' = stdout /\ exitCode' = 0
                \/ /\ nlines' = nlines + 1
                   /\ line'.kind = "object"
                   /\ line'.command = "quit"]_vars

\* C11 witness: the first line failed, the second was processed and answered
\* with a success, and the loop is still running
C11_Witness ==
    /\ bridge = "impress"
    /\ nonblank = 2
    /\ Len(stdout) = 2
    /\ ~stdout[1].success
    /\ stdout[2].success
    /\ pc = "loop"

CapturePhaseCalls == {"find_rf_packet", "check_data"}
SeekPhaseCalls == {"sweep_frequency", "check_frequency", "cancel_sweep_frequency"}

\* C12: in a radio-frequency learn the capture phase begins with
\* find_rf_packet, every check_data after it, and it begins after
\* sweep_frequency and after a check_frequency poll that returned true; none
\* of its calls is issued once the frequency seek timed out.  An infrared
\* learn issues no sweep_frequency, no check_frequency and no find_rf_packet.
C12_RfPhaseOrdering ==
    LearnAccepted =>
       /\ (LearnRf /\ Range(trace) \cap CapturePhaseCalls # {}) =>
             LET first == CHOOSE k \in DOMAIN trace :
                             /\ trace[k] \in CapturePhaseCalls
                             /\ \A j \in 1..(k - 1) : trace[j] \notin CapturePhaseCalls
             IN /\ found
                /\ trace[first] = "find_rf_packet"
                /\ \E j \in 1..(first - 1) : trace[j] = "sweep_frequency"
                /\ \E j \in 1..(first - 1) : trace[j] = "check_frequency"
       /\ (\/ pc = "seek_timeout"
           \/ "cancel_sweep_frequency" \in Range(trace)
           \/ ErrorResponse("No RF frequency found") \in Range(stdout)) =>
             Range(trace) \cap CapturePhaseCalls = {}
       /\ ~LearnRf =>
             Range(trace) \cap (SeekPhaseCalls \cup {"find_rf_packet"}) = {}

\* C12 witness: the frequency is found at the 30th poll, the packet is then
\* captured
C12_Witness ==
    /\ LearnRf
    /\ found
    /\ Count(trace, "check_frequency") = 30
    /\ "check_data" \in Range(trace)
    /\ pc = "exited"
    /\ exitCode = 0

SendAccepted == bridge = "device" /\ Argc >= 6 /\ Arg(1) = "send"
TestAccepted == bridge = "device" /\ Argc >= 5 /\ Arg(1) = "test"

\* The run of the device bridge failed: it printed nothing, or its last
\* response carries an error or success:false.
DeviceFailure ==
    \/ stdout = << >>
    \/ "error" \in DOMAIN LastOf(stdout)
    \/ "success" \in DOMAIN LastOf(stdout) /\ ~LastOf(stdout).success

\* C13 as stated: every command of the device bridge that ends in a failure
\* exits with a non-zero status, and a zero status follows a success only.
C13_FailureExitsNonZero ==
    (bridge = "device" /\ pc = "exited") => (DeviceFailure <=> exitCode # 0)

\* C13 amended: that holds for every command but an accepted test command,
\* which exits with status zero whatever it reports.
C13_FailureExitsNonZeroButTest ==
    (bridge = "device" /\ pc = "exited") =>
       IF TestAccepted THEN exitCode = 0 ELSE (DeviceFailure <=> exitCode # 0)

\* C13 witness: send_data raised, send reported the failure, status 1
C13_Witness ==
    /\ SendAccepted
    /\ pc = "exited"
    /\ "send_data" \in Range(trace)
    /\ stdout = <<SendFailed(exc.msg)>>
    /\ exitCode = 1

\* C14: test prints exactly one response: {online:true} when the handshake
\* succeeds, {online:false} without an error field when it fails with a
\* socket timeout, {online:false} with the error text on any other exception.
C14_TestResponses ==
    TestAccepted =>
       /\ pc # "exited" => stdout = << >>
       /\ pc = "exited" =>
             /\ Len(stdout) = 1
             /\ exc = NoExc =>
                   /\ stdout[1] = [online |-> TRUE]
                   /\ trace = <<"gendevice", "auth", "print">>
             /\ exc.kind = "socket.timeout" => stdout[1] = [online |-> FALSE]
             /\ (exc # NoExc /\ exc.kind # "socket.timeout") =>
                   stdout[1] = [online |-> FALSE, error |-> exc.msg]

\* C14 witness: the handshake ran into a socket timeout
C14_Witness ==
    /\ TestAccepted
    /\ pc = "exited"
    /\ exc = SocketTimeout
    /\ trace = <<"gendevice", "auth", "print">>
    /\ stdout = <<[online |-> FALSE]>>

\* u is t with some of its letters in upper case
IsCaseVariant(u, t) ==
    /\ Len(u) = Len(t)
    /\ \A k \in DOMAIN t : u[k] \in {t[k], UpperOf(t[k])}

\* C15: the text learn emits for a payload b is lowercase hexadecimal, and
\* send, given that text in lower, upper or mixed case, decodes it without
\* an error and hands send_data exactly b.
C15_HexRoundTrip ==
    /\ LearnAccepted =>
          \A k \in DOMAIN stdout :
             "code" \in DOMAIN stdout[k] =>
                /\ IsLowerHex(stdout[k].code)
                /\ CaseVariants(stdout[k].code) \subseteq CodeSamples
    /\ (SendAccepted /\ pc = "exited" /\ DevtypeOk(Arg(4)) /\ MacOk(Arg(3))) =>
          \A b \in Payloads :
             IsCaseVariant(codeText, CodeResponse(b).code) =>
                /\ exc # FromHexError
                /\ exc = NoExc => "send_data" \in Range(trace)
                /\ "send_data" \in Range(trace) => data = b

\* C15 witness: a learned code handed back in mixed case was sent
C15_Witness ==
    /\ SendAccepted
    /\ pc = "exited"
    /\ exitCode = 0
    /\ codeText = <<"0", "A", "a", "B">>
    /\ data = <<10, 171>>
    /\ LastOf(trace) = "print" /\ "send_data" \in Range(trace)

\* C16: a quit line is answered with exactly one {success:true}, without any
\* session lookup and whether or not a session is resolvable, and ends the
\* process with status zero; once the process has ended no further line is
\* read or answered.
C16_QuitTerminates ==
    [][bridge = "impress" =>
          /\ (nlines' = nlines + 1 /\ line'.kind = "object" /\ line'.command = "quit") =>
                /\ stdout' = Append(stdout, [success |-> TRUE])
                /\ ops' = << >>
                /\ spawned' = << >>
                /\ pc' = "exited"
                /\ exitCode' = 0
          /\ pc = "exited" => (nlines' = nlines /\ stdout' = stdout)]_vars

\* C16 witness: quit was the first line, handled while a session was
\* resolvable; the process ended with input left unread
C16_Witness ==
    /\ Handled({"quit"})
    /\ resolvable
    /\ nlines = 1 /\ nlines < MaxLines
    /\ stdout = <<[success |-> TRUE]>>
    /\ ops = << >>
    /\ pc = "exited"
    /\ exitCode = 0

\* the calls made so far, the print of a response aside
CallsMade ==
    IF trace # << >> /\ LastOf(trace) = "print"
    THEN SubSeq(trace, 1, Len(trace) - 1)
    ELSE trace

\* the operations on the device: the calls without the construction of the
\* handle and the sleeps
DeviceOps == SelectSeq(CallsMade, LAMBDA c : c \notin {"gendevice", "sleep", "print"})

\* device construction raised (nothing was called), or auth() raised
SessionFailed ==
    /\ exc # NoExc
    /\ CallsMade \in {<< >>, <<"gendevice", "auth">>}

\* C17: in learn and send, auth is the first operation on the device; when
\* the construction of the device or auth fails, no phase is started, nothing
\* is polled or sent, and the run ends with one error response and a
\* non-zero status.
C17_AuthFirst ==
    (LearnAccepted \/ SendAccepted) =>
       /\ \A k \in DOMAIN trace :
             (/\ trace[k] \notin {"gendevice", "sleep", "print"}
              /\ \A j \in 1..(k - 1) : trace[j] \in {"gendevice", "sleep", "print"})
                => trace[k] = "auth"
       /\ SessionFailed =>
             /\ DeviceOps \in {<< >>, <<"auth">>}
             /\ pc = "exited"
             /\ exitCode = 1
             /\ Len(stdout) = 1
             /\ stdout[1] = IF LearnAccepted THEN [error |-> exc.msg]
                            ELSE [success |-> FALSE, error |-> exc.msg]

\* C17 witness: auth of a learn run ran into a socket timeout
C17_Witness ==
    /\ LearnAccepted
    /\ exc = SocketTimeout
    /\ trace = <<"gendevice", "auth", "print">>
    /\ stdout = <<[error |-> "timed out"]>>
    /\ exitCode = 1

\* C18: each polling phase of learn issues at most 30 polls, each directly
\* after exactly one sleep, so that sleeps and polls are equal in number: at
\* most 30 polls in an infrared learn, 60 in a radio-frequency one.  Learn
\* terminates: its calls are bounded in number and it is never stuck before
\* it has exited.
C18_PollBudgetAndCadence ==
    LearnAccepted =>
       LET seeks == Count(trace, "check_frequency")
           captures == Count(trace, "check_data")
       IN
       /\ seeks <= 30
       /\ captures <= 30
       /\ \A k \in DOMAIN trace :
             trace[k] \in PollCalls =>
                /\ k >= 2
                /\ trace[k - 1] = "sleep"
                /\ k >= 3 => trace[k - 2] # "sleep"
       /\ Count(trace, "sleep") = seeks + captures
       /\ ~LearnRf => seeks = 0
       /\ Len(trace) <= 3 + 2 * 30 + 1 + 2 * 30 + 1
       /\ pc # "exited" => ENABLED Next

\* C18 witness: a radio-frequency learn that used all 60 polls and timed out
C18_Witness ==
    /\ LearnRf
    /\ Count(trace, "check_frequency") = 30
    /\ Count(trace, "check_data") = 30
    /\ Count(trace, "sleep") = 60
    /\ pc = "exited"
    /\ exitCode = 1

\* the frequency seek used its 30 polls and none returned true
SeekExhausted ==
    /\ LearnRf
    /\ ~found
    /\ i = 30
    /\ Count(trace, "check_frequency") = 30

\* a check_frequency poll raised and ended the command
SeekAborted ==
    /\ LearnAccepted
    /\ exc # NoExc
    /\ Len(trace) >= 2
    /\ RaisingCall = "check_frequency"

\* C19: cancel_sweep_frequency is called, once, exactly in the runs whose
\* frequency seek used up its 30 polls: not after the frequency was found,
\* not in an infrared learn, and not when a check_frequency poll raised, in
\* which case the run ends with the sweep started and neither completed nor
\* cancelled.
C19_CancelScope ==
    LearnAccepted =>
       /\ "cancel_sweep_frequency" \in Range(trace) =>
             /\ SeekExhausted
             /\ Count(trace, "cancel_sweep_frequency") = 1
       /\ (pc = "exited" /\ SeekExhausted) => "cancel_sweep_frequency" \in Range(trace)
       /\ (found \/ ~LearnRf) => "cancel_sweep_frequency" \notin Range(trace)
       /\ SeekAborted =>
             /\ pc = "exited"
             /\ "sweep_frequency" \in Range(trace)
             /\ "cancel_sweep_frequency" \notin Range(trace)
             /\ "find_rf_packet" \notin Range(trace)

\* C19 witness: the 30th check_frequency poll raises; the run ends with the
\* sweep left started
C19_Witness ==
    /\ SeekAborted
    /\ Count(trace, "check_frequency") = 30
    /\ "cancel_sweep_frequency" \notin Range(trace)
    /\ pc = "exited"
    /\ exitCode = 1

NoSessionResponse == [success |-> FALSE, error |-> NoUnoMessage]

====
